---------------------------- MODULE Spec2Model ----------------------------
(***************************************************************************)
(* Model of eld_app/services.py: ELDService.generate_log_entries (the      *)
(* duty-cycle simulator) and ELDService.generate_daily_log_sheets (the     *)
(* daily sheet aggregator), driven as TripPlannerView.post drives them.    *)
(*                                                                         *)
(* Decimal hours are kept as whole seconds (1 h = 3600), so that 0.5 h,    *)
(* minute/60 and sub-minute leg durations are exact integers; the float    *)
(* rounding of the Python arithmetic itself is not modelled.  A calendar   *)
(* date is <<year, month, day>>, a time of day is <<hour, minute>>.        *)
(***************************************************************************)
EXTENDS Integers, Sequences, FiniteSets, TLC

VARIABLES
    now_date,             \* datetime.now().date() as read at line 115
    now_hour,             \* datetime.now().hour as read at line 116
    now_minute,           \* datetime.now().minute as read at line 116
    segments,             \* route_data['segments']: duration_hours of each leg, in seconds
    pc,                   \* position in post / generate_log_entries / generate_daily_log_sheets
    i,                    \* 1-based index of the segment of the for loop (Python's i + 1)
    current_date,
    current_time_decimal,
    daily_drive_hours,
    daily_duty_hours,
    hours_since_break,
    drive_time_to_add,
    log_entries,          \* the LogEntry objects, in creation order
    intervals,            \* history: the (date, status, start_decimal, end_decimal) of each _create_log_entry call
    saved,                \* the entries entry.save() has stored
    k,                    \* 1-based index of the entry generate_daily_log_sheets is at
    daily_logs,           \* the dict daily_logs, as the sequence of its values in insertion order
    sheets,               \* the list generate_daily_log_sheets returned
    request,              \* the number of the request post is serving
    first_log             \* the log_entries the previous request returned

vars == <<now_date, now_hour, now_minute, segments, pc, i, current_date,
          current_time_decimal, daily_drive_hours, daily_duty_hours,
          hours_since_break, drive_time_to_add, log_entries, intervals,
          saved, k, daily_logs, sheets, request, first_log>>

rerunVars == <<request, first_log>>

simVars == <<now_date, now_hour, now_minute, segments, i, current_date,
             current_time_decimal, daily_drive_hours, daily_duty_hours,
             hours_since_break, drive_time_to_add, intervals, saved>>

(***************************************************************************)
(* Bounds of the model and the inputs drawn within them.                   *)
(***************************************************************************)
MaxSegs == 3
MaxEntries == 3
MaxRuns == 2

SecondsPerHour == 3600

StartDates == { <<2024, 2, 28>>, <<2025, 12, 31>> }
StartHours == {0, 8, 23}
StartMinutes == {0, 30}
\* leg durations: negative, zero, 90 s, 1 h, 2 h, 12 h
Durations == {0 - SecondsPerHour, 0, 90, SecondsPerHour, 2 * SecondsPerHour, 12 * SecondsPerHour}

SeqsUpTo(S, n) == UNION { [1..m -> S] : m \in 0..n }

(***************************************************************************)
(* ELDService.__init__                                                     *)
(***************************************************************************)
max_drive_hours == 11 * SecondsPerHour
max_duty_hours == 14 * SecondsPerHour
required_break_after_drive == 8 * SecondsPerHour
break_duration == SecondsPerHour \div 2
off_duty_required == 10 * SecondsPerHour
pickup_dropoff_duration == 1 * SecondsPerHour
Midnight == 24 * SecondsPerHour

(***************************************************************************)
(* Dates: date + timedelta(days=1) and strftime('%Y-%m-%d').               *)
(***************************************************************************)
IsLeap(y) == (y % 4 = 0 /\ y % 100 # 0) \/ y % 400 = 0

DaysInMonth(y, m) ==
    IF m = 2 THEN (IF IsLeap(y) THEN 29 ELSE 28)
    ELSE IF m \in {4, 6, 9, 11} THEN 30 ELSE 31

AddTwoDays(date) ==
    LET step(d) == IF d[3] < DaysInMonth(d[1], d[2]) THEN <<d[1], d[2], d[3] + 1>>
                   ELSE IF d[2] < 12 THEN <<d[1], d[2] + 1, 1>>
                   ELSE <<d[1] + 1, 1, 1>>
    IN  step(step(date))

AddOneDay(date) ==
    IF date[3] < DaysInMonth(date[1], date[2]) THEN <<date[1], date[2], date[3] + 1>>
    ELSE IF date[2] < 12 THEN <<date[1], date[2] + 1, 1>>
    ELSE <<date[1] + 1, 1, 1>>

Pad2(n) == IF n < 10 THEN "0" \o ToString(n) ELSE ToString(n)

StrfDate(date) == ToString(date[1]) \o "-" \o Pad2(date[2]) \o "-" \o Pad2(date[3])

StrfTime(t) == Pad2(t[1]) \o ":" \o Pad2(t[2])

(***************************************************************************)
(* Trip and route_data['waypoints'] names.                                 *)
(***************************************************************************)
CurrentLocation == "current_location"
DropoffLocation == "dropoff_location"
WaypointName(j) == "waypoint_" \o ToString(j)

(***************************************************************************)
(* _decimal_to_time and _create_log_entry                                  *)
(***************************************************************************)
\* int() truncates toward zero
Trunc(a, b) == IF a >= 0 THEN a \div b ELSE 0 - ((0 - a) \div b)

DecimalToTime(decimal_hour) ==
    LET hour == Trunc(decimal_hour, SecondsPerHour)
        minute == Trunc((decimal_hour - hour * SecondsPerHour) * 60, SecondsPerHour)
    IN  <<hour % 24, minute>>

CreateLogEntry(status, date, start_decimal, end_decimal, location, remarks) ==
    [date |-> date,
     start_time |-> DecimalToTime(start_decimal),
     end_time |-> DecimalToTime(end_decimal),
     duty_status |-> status,
     location |-> location,
     remarks |-> remarks]

Interval(status, date, start_decimal, end_decimal) ==
    [date |-> date, status |-> status, start |-> start_decimal, end |-> end_decimal]

\* log_entries.append(self._create_log_entry(...))
Emit(status, date, start_decimal, end_decimal, location, remarks) ==
    /\ log_entries' = Append(log_entries,
            CreateLogEntry(status, date, start_decimal, end_decimal, location, remarks))
    /\ intervals' = Append(intervals, Interval(status, date, start_decimal, end_decimal))

NoEmit == UNCHANGED <<log_entries, intervals>>

(***************************************************************************)
(* generate_log_entries                                                    *)
(***************************************************************************)
StartTimeDecimal == now_hour * SecondsPerHour + now_minute * 60

InitialGuardInclusive(t) == t >= 0

\* line 119: if current_time_decimal > 0
InitialGuard(t) == t > 0

\* lines 114-125
InitialOffDuty ==
    /\ pc = "start"
    /\ UNCHANGED rerunVars
    /\ current_date' = now_date
    /\ current_time_decimal' = StartTimeDecimal
    /\ IF InitialGuard(StartTimeDecimal)
       THEN Emit("off_duty", now_date, 0, StartTimeDecimal, CurrentLocation,
                 "Off duty before trip start")
       ELSE NoEmit
    /\ daily_drive_hours' = 0
    /\ daily_duty_hours' = 0
    /\ hours_since_break' = 0
    /\ i' = 1
    /\ pc' = "segment"
    /\ UNCHANGED <<now_date, now_hour, now_minute, segments, drive_time_to_add,
                   saved, k, daily_logs, sheets>>

NeverFirstSegment(j) == FALSE

\* line 129: is_first_segment = (i == 0)
IsFirstSegment(j) == j = 1

\* lines 128-137: the next iteration of the for loop
BeginSegment ==
    /\ pc = "segment"
    /\ UNCHANGED rerunVars
    /\ i <= Len(segments)
    /\ IF ~IsFirstSegment(i)
       THEN /\ Emit("on_duty_not_driving", current_date, current_time_decimal,
                    current_time_decimal + pickup_dropoff_duration,
                    WaypointName(i), "Loading/unloading activities")
            /\ current_time_decimal' = current_time_decimal + pickup_dropoff_duration
            /\ daily_duty_hours' = daily_duty_hours + pickup_dropoff_duration
       ELSE /\ NoEmit
            /\ UNCHANGED <<current_time_decimal, daily_duty_hours>>
    /\ drive_time_to_add' = segments[i]
    /\ pc' = "drive"
    /\ UNCHANGED <<now_date, now_hour, now_minute, segments, i, current_date,
                   daily_drive_hours, hours_since_break, saved, k, daily_logs, sheets>>

Min(a, b) == IF a <= b THEN a ELSE b

\* lines 141-142
DriveSegmentDuration ==
    Min(drive_time_to_add, required_break_after_drive - hours_since_break)

\* lines 145-147
BoundaryHit ==
    \/ current_time_decimal + DriveSegmentDuration > Midnight
    \/ daily_drive_hours + DriveSegmentDuration > max_drive_hours
    \/ daily_duty_hours + DriveSegmentDuration > max_duty_hours

ResetDailyOnly ==
    /\ daily_drive_hours' = 0
    /\ daily_duty_hours' = 0
    /\ UNCHANGED hours_since_break

\* lines 161-163
ResetAccumulators ==
    /\ daily_drive_hours' = 0
    /\ daily_duty_hours' = 0
    /\ hours_since_break' = 0

ClockAfterRestNoReset == current_time_decimal + off_duty_required

\* lines 160 and 166: the clock is reset to 0, then advanced by the rest
ClockAfterRest == 0 + off_duty_required

\* lines 148-169: the transition to the next day
DayTransition ==
    /\ pc = "drive"
    /\ UNCHANGED rerunVars
    /\ drive_time_to_add > 0
    /\ BoundaryHit
    /\ LET time_to_midnight == Midnight - current_time_decimal
           driven == IF time_to_midnight > 0
                     THEN <<CreateLogEntry("driving", current_date, current_time_decimal,
                                Midnight, WaypointName(i),
                                "Driving towards " \o WaypointName(i + 1))>>
                     ELSE <<>>
           drivenI == IF time_to_midnight > 0
                      THEN <<Interval("driving", current_date, current_time_decimal, Midnight)>>
                      ELSE <<>>
           next_date == AddOneDay(current_date)
       IN  /\ drive_time_to_add' = IF time_to_midnight > 0
                                   THEN drive_time_to_add - time_to_midnight
                                   ELSE drive_time_to_add
           /\ current_date' = next_date
           /\ log_entries' = log_entries \o driven \o
                  <<CreateLogEntry("off_duty", next_date, 0, off_duty_required,
                                   WaypointName(i + 1), "Required 10-hour rest period")>>
           /\ intervals' = intervals \o drivenI \o
                  <<Interval("off_duty", next_date, 0, off_duty_required)>>
    /\ current_time_decimal' = ClockAfterRest
    /\ ResetAccumulators
    /\ pc' = "drive"
    /\ UNCHANGED <<now_date, now_hour, now_minute, segments, i, saved, k,
                   daily_logs, sheets>>

\* lines 171-178: a driving chunk that hits no boundary
DriveChunk ==
    /\ pc = "drive"
    /\ UNCHANGED rerunVars
    /\ drive_time_to_add > 0
    /\ ~BoundaryHit
    /\ Emit("driving", current_date, current_time_decimal,
            current_time_decimal + DriveSegmentDuration, WaypointName(i),
            "Driving towards " \o WaypointName(i + 1))
    /\ current_time_decimal' = current_time_decimal + DriveSegmentDuration
    /\ daily_drive_hours' = daily_drive_hours + DriveSegmentDuration
    /\ daily_duty_hours' = daily_duty_hours + DriveSegmentDuration
    /\ hours_since_break' = hours_since_break + DriveSegmentDuration
    /\ drive_time_to_add' = drive_time_to_add - DriveSegmentDuration
    /\ pc' = "break"
    /\ UNCHANGED <<now_date, now_hour, now_minute, segments, i, current_date,
                   saved, k, daily_logs, sheets>>

BreakDueStrict(h) == h > required_break_after_drive

\* line 181: if hours_since_break >= self.required_break_after_drive
BreakDue(h) == h >= required_break_after_drive

\* lines 180-185: the break check that ends an iteration of the while loop
BreakCheck ==
    /\ pc = "break"
    /\ UNCHANGED rerunVars
    /\ IF BreakDue(hours_since_break)
       THEN /\ Emit("off_duty", current_date, current_time_decimal,
                    current_time_decimal + break_duration, "Rest Area",
                    "Required 30-minute break")
            /\ current_time_decimal' = current_time_decimal + break_duration
            /\ daily_duty_hours' = daily_duty_hours + break_duration
            /\ hours_since_break' = 0
       ELSE /\ NoEmit
            /\ UNCHANGED <<current_time_decimal, daily_duty_hours, hours_since_break>>
    /\ pc' = "drive"
    /\ UNCHANGED <<now_date, now_hour, now_minute, segments, i, current_date,
                   daily_drive_hours, drive_time_to_add, saved, k, daily_logs, sheets>>

\* line 140: the while condition fails, the for loop moves on
EndSegment ==
    /\ pc = "drive"
    /\ UNCHANGED rerunVars
    /\ ~(drive_time_to_add > 0)
    /\ i' = i + 1
    /\ pc' = "segment"
    /\ UNCHANGED <<now_date, now_hour, now_minute, segments, current_date,
                   current_time_decimal, daily_drive_hours, daily_duty_hours,
                   hours_since_break, drive_time_to_add, log_entries, intervals,
                   saved, k, daily_logs, sheets>>

FinalGuardInclusive(t) == t <= Midnight

\* line 188: if current_time_decimal < 24
FinalGuard(t) == t < Midnight

\* lines 187-194: the closing interval, the saves and the return;
\* views.py then hands log_entries to generate_daily_log_sheets
FinalOffDuty ==
    /\ pc = "segment"
    /\ UNCHANGED rerunVars
    /\ i > Len(segments)
    /\ IF FinalGuard(current_time_decimal)
       THEN Emit("off_duty", current_date, current_time_decimal, Midnight,
                 DropoffLocation, "Trip completed, off duty")
       ELSE NoEmit
    /\ saved' = saved \o log_entries'
    /\ k' = 1
    /\ daily_logs' = <<>>
    /\ pc' = "sheets"
    /\ UNCHANGED <<now_date, now_hour, now_minute, segments, i, current_date,
                   current_time_decimal, daily_drive_hours, daily_duty_hours,
                   hours_since_break, drive_time_to_add, sheets>>

(***************************************************************************)
(* generate_daily_log_sheets                                               *)
(***************************************************************************)
EmptyTotals ==
    [off_duty |-> 0, sleeper_berth |-> 0, driving |-> 0, on_duty_not_driving |-> 0]

NewSheet(date_str) == [date_start |-> date_str, segments |-> <<>>, totals |-> EmptyTotals]

DurationNoWrap(entry) ==
    (entry.end_time[1] * 60 + entry.end_time[2])
        - (entry.start_time[1] * 60 + entry.start_time[2])

\* lines 234-239: the duration of an entry, in minutes (the code divides by 60)
Duration(entry) ==
    LET start_minutes == entry.start_time[1] * 60 + entry.start_time[2]
        end_minutes == entry.end_time[1] * 60 + entry.end_time[2]
    IN  IF end_minutes < start_minutes
        THEN end_minutes + 24 * 60 - start_minutes
        ELSE end_minutes - start_minutes

\* round(duration, 2), in hundredths of an hour: minutes * 100 / 60 is never a tie
Round2(minutes) == (10 * minutes + 3) \div 6

\* the index of the sheet keyed date_str in daily_logs, 0 when it has none
SheetIndex(logs, date_str) ==
    IF \E n \in 1..Len(logs) : logs[n].date_start = date_str
    THEN CHOOSE n \in 1..Len(logs) : logs[n].date_start = date_str
    ELSE 0

SegmentIdFromOne(sheet) == Len(sheet.segments) + 1

\* line 242: 'id': len(daily_logs[date_str]['segments'])
SegmentId(sheet) == Len(sheet.segments)

\* lines 221-250: one iteration of the loop over log_entries
AddEntry(logs, entry) ==
    LET date_str == StrfDate(entry.date)
        logs1 == IF SheetIndex(logs, date_str) = 0
                 THEN Append(logs, NewSheet(date_str))
                 ELSE logs
        n == SheetIndex(logs1, date_str)
        duration == Duration(entry)
        summary == [id |-> SegmentId(logs1[n]),
                    status |-> entry.duty_status,
                    note |-> entry.remarks,
                    start_time |-> StrfTime(entry.start_time),
                    end_time |-> StrfTime(entry.end_time),
                    duration_hours |-> Round2(duration)]
    IN  [logs1 EXCEPT
            ![n].segments = Append(@, summary),
            ![n].totals = [@ EXCEPT ![entry.duty_status] = @ + duration]]

AggregateEntry ==
    /\ pc = "sheets"
    /\ UNCHANGED rerunVars
    /\ k <= Len(log_entries)
    /\ daily_logs' = AddEntry(daily_logs, log_entries[k])
    /\ k' = k + 1
    /\ UNCHANGED <<pc, log_entries, sheets>>
    /\ UNCHANGED simVars

\* line 252
ReturnSheets ==
    /\ pc = "sheets"
    /\ UNCHANGED rerunVars
    /\ k > Len(log_entries)
    /\ sheets' = daily_logs
    /\ pc' = "done"
    /\ UNCHANGED <<k, daily_logs, log_entries>>
    /\ UNCHANGED simVars

(***************************************************************************)
(* TripPlannerView.post: a trip planned from the wall clock and a route.   *)
(***************************************************************************)
Init ==
    /\ now_date \in StartDates
    /\ now_hour \in StartHours
    /\ now_minute \in StartMinutes
    /\ segments \in SeqsUpTo(Durations, MaxSegs)
    /\ pc = "start"
    /\ i = 1
    /\ current_date = now_date
    /\ current_time_decimal = 0
    /\ daily_drive_hours = 0
    /\ daily_duty_hours = 0
    /\ hours_since_break = 0
    /\ drive_time_to_add = 0
    /\ log_entries = <<>>
    /\ intervals = <<>>
    /\ saved = <<>>
    /\ k = 1
    /\ daily_logs = <<>>
    /\ sheets = <<>>
    /\ request = 1
    /\ first_log = <<>>

Next ==
    \/ InitialOffDuty
    \/ BeginSegment
    \/ DayTransition
    \/ DriveChunk
    \/ BreakCheck
    \/ EndSegment
    \/ FinalOffDuty
    \/ AggregateEntry
    \/ ReturnSheets

Spec == Init /\ [][Next]_vars

(***************************************************************************)
(* A second request for the same trip data and the same route: post runs   *)
(* again with a fresh ELDService and reads the wall clock anew.            *)
(***************************************************************************)
PlanAgain ==
    /\ pc = "done"
    /\ request < MaxRuns
    /\ request' = request + 1
    /\ first_log' = log_entries
    \* the wall clock has not gone back; the date is taken to be the same
    /\ now_date' = now_date
    /\ now_hour' \in StartHours
    /\ now_minute' \in StartMinutes
    /\ now_hour' * 60 + now_minute' >= now_hour * 60 + now_minute
    /\ pc' = "start"
    /\ i' = 1
    /\ current_date' = now_date'
    /\ current_time_decimal' = 0
    /\ daily_drive_hours' = 0
    /\ daily_duty_hours' = 0
    /\ hours_since_break' = 0
    /\ drive_time_to_add' = 0
    /\ log_entries' = <<>>
    /\ intervals' = <<>>
    /\ k' = 1
    /\ daily_logs' = <<>>
    /\ sheets' = <<>>
    /\ UNCHANGED <<segments, saved>>

NextRerun == Next \/ PlanAgain

SpecRerun == Init /\ [][NextRerun]_vars

(***************************************************************************)
(* post runs to completion: the code is sequential and nothing blocks it,  *)
(* so a step that is enabled is eventually taken.                          *)
(***************************************************************************)
FairSpec == Init /\ [][Next]_vars /\ WF_vars(Next)

(***************************************************************************)
(* generate_daily_log_sheets on an arbitrary list of entries.              *)
(***************************************************************************)
AggDates == { <<2025, 12, 31>>, <<2026, 1, 1>> }
AggTimes == { <<<<0, 0>>, <<8, 0>>>>, <<<<8, 0>>, <<0, 0>>>> }
AggStatuses == {"off_duty", "driving", "on_duty_not_driving"}

AggEntries ==
    { [date |-> d, start_time |-> t[1], end_time |-> t[2], duty_status |-> s,
       location |-> "Rest Area", remarks |-> "entry"] :
        d \in AggDates, t \in AggTimes, s \in AggStatuses }

InitAgg ==
    /\ log_entries \in SeqsUpTo(AggEntries, MaxEntries)
    /\ pc = "sheets"
    /\ k = 1
    /\ daily_logs = <<>>
    /\ sheets = <<>>
    /\ request = 1
    /\ first_log = <<>>
    /\ now_date = <<2025, 12, 31>>
    /\ now_hour = 0
    /\ now_minute = 0
    /\ segments = <<>>
    /\ i = 1
    /\ current_date = now_date
    /\ current_time_decimal = 0
    /\ daily_drive_hours = 0
    /\ daily_duty_hours = 0
    /\ hours_since_break = 0
    /\ drive_time_to_add = 0
    /\ intervals = <<>>
    /\ saved = <<>>

NextAgg == AggregateEntry \/ ReturnSheets

SpecAgg == InitAgg /\ [][NextAgg]_vars

(***************************************************************************)
(* Vocabulary of the properties.                                           *)
(***************************************************************************)
\* the input contract of the simulator: at least one leg, no negative duration
ValidInput ==
    /\ Len(segments) >= 1
    /\ \A j \in 1..Len(segments) : segments[j] >= 0

\* generate_log_entries has returned
Returned == pc \in {"sheets", "done"}

RECURSIVE SumLen(_, _, _)
\* summed end - start of the intervals of seq on date d whose status is in S
SumLen(seq, d, S) ==
    IF seq = <<>> THEN 0
    ELSE (IF Head(seq).date = d /\ Head(seq).status \in S
          THEN Head(seq).end - Head(seq).start ELSE 0) + SumLen(Tail(seq), d, S)

IntervalDates == { intervals[n].date : n \in 1..Len(intervals) }

RECURSIVE MaxDrivingRun(_, _)
\* the longest driving accumulated between two off-duty intervals of seq,
\* run being the driving accumulated so far
MaxDrivingRun(seq, run) ==
    IF seq = <<>> THEN run
    ELSE LET h == Head(seq)
             run1 == IF h.status = "driving" THEN run + (h.end - h.start)
                     ELSE IF h.status = "off_duty" THEN 0
                     ELSE run
             rest == MaxDrivingRun(Tail(seq), run1)
         IN  IF run1 >= rest THEN run1 ELSE rest

\* the number of days from 0001-01-01 to date
DayNumber(date) ==
    LET y == date[1] - 1
        RECURSIVE before(_)
        before(m) == IF m = 1 THEN 0 ELSE before(m - 1) + DaysInMonth(date[1], m - 1)
    IN  365 * y + (y \div 4) - (y \div 100) + (y \div 400) + before(date[2]) + date[3]

\* the intervals of date d, in emission order
OnDate(d) == SelectSeq(intervals, LAMBDA v : v.date = d)

FirstDate == intervals[1].date
LastDate == intervals[Len(intervals)].date

(***************************************************************************)
(* C1-C3: the ceilings.                                                    *)
(***************************************************************************)
\* C1: for every valid input and every date of the output, the Driving
\* intervals of that date sum to at most 11 hours.
C1_DrivingAtMost11h ==
    (ValidInput /\ Returned) =>
        \A d \in IntervalDates : SumLen(intervals, d, {"driving"}) <= max_drive_hours

\* C2: for every valid input and every date of the output, the Driving and
\* OnDutyNotDriving intervals of that date sum to at most 14 hours.
C2_DutyAtMost14h ==
    (ValidInput /\ Returned) =>
        \A d \in IntervalDates :
            SumLen(intervals, d, {"driving", "on_duty_not_driving"}) <= max_duty_hours

\* C3: the driving accumulated since the last break or rest (or since the
\* start of the trip) never exceeds 8 hours, the Driving interval emitted
\* up to 24:00 at a boundary included.
C3_DrivingRunAtMost8h ==
    ValidInput => MaxDrivingRun(intervals, 0) <= required_break_after_drive

(***************************************************************************)
(* C4-C5: coverage of a date and containment in it.                        *)
(***************************************************************************)
Contiguous(seq) == \A n \in 2..Len(seq) : seq[n].start = seq[n - 1].end

\* C4: the intervals of a date are contiguous; on a date strictly between the
\* first and the last they run from 00:00 to 24:00, on the first and the last
\* date from the start time (or 00:00) through 24:00.
C4_DatesCovered ==
    (ValidInput /\ Returned) =>
        \A d \in IntervalDates :
            LET seq == OnDate(d)
            IN  /\ Contiguous(seq)
                /\ \A n \in 1..Len(seq) : seq[n].start <= seq[n].end
                /\ seq[1].start \in (IF d = FirstDate THEN {0, StartTimeDecimal} ELSE {0})
                /\ seq[Len(seq)].end = Midnight

\* an interval is about to be emitted at the current clock position
AboutToEmit ==
    \/ pc = "segment" /\ i <= Len(segments) /\ i # 1
    \/ pc = "segment" /\ i > Len(segments) /\ current_time_decimal < Midnight
    \/ pc = "drive" /\ drive_time_to_add > 0 /\ ~BoundaryHit
    \/ pc = "break" /\ hours_since_break >= required_break_after_drive

\* C5: every emitted interval has 0 <= start <= end <= 24 h, and the clock
\* is in [0, 24) whenever an interval is about to be emitted.
C5_IntervalsInsideDate ==
    ValidInput =>
        /\ \A n \in 1..Len(intervals) :
              /\ 0 <= intervals[n].start
              /\ intervals[n].start <= intervals[n].end
              /\ intervals[n].end <= Midnight
        /\ AboutToEmit =>
              (0 <= current_time_decimal /\ current_time_decimal < Midnight)

(***************************************************************************)
(* C6: the rest that opens every new date.                                 *)
(***************************************************************************)
IsRest(n) ==
    /\ intervals[n].status = "off_duty"
    /\ intervals[n].start = 0
    /\ intervals[n].end = off_duty_required
    /\ log_entries[n].duty_status = "off_duty"
    /\ log_entries[n].start_time = <<0, 0>>
    /\ log_entries[n].end_time = <<10, 0>>
    /\ log_entries[n].remarks = "Required 10-hour rest period"

\* C6: wherever the date of the emitted intervals changes it advances by
\* exactly one day, and the first interval of the new date is the OffDuty
\* rest from 00:00 to 10:00.
C6_RestOpensEveryNewDate ==
    /\ Len(log_entries) = Len(intervals)
    /\ \A n \in 2..Len(intervals) :
          intervals[n].date # intervals[n - 1].date =>
              /\ DayNumber(intervals[n].date) = DayNumber(intervals[n - 1].date) + 1
              /\ log_entries[n].date = intervals[n].date
              /\ IsRest(n)
    /\ (intervals # <<>>) =>
          /\ DayNumber(current_date) = DayNumber(LastDate)
          /\ FirstDate = now_date

\* C6 witness: a returned log that crosses the end of February of a leap year
C6_Witness ==
    /\ pc = "done"
    /\ FirstDate = <<2024, 2, 28>>
    /\ LastDate = <<2024, 3, 1>>

(***************************************************************************)
(* C7-C9: the scenarios.                                                   *)
(***************************************************************************)
\* the status, decimal start and end, and stored start and end time of entry n
Shape(n) ==
    <<intervals[n].status, intervals[n].start, intervals[n].end,
      log_entries[n].duty_status, log_entries[n].start_time, log_entries[n].end_time>>

OneDate == \A n \in 1..Len(intervals) :
              intervals[n].date = now_date /\ log_entries[n].date = now_date

ScenarioA ==
    /\ segments = <<2 * SecondsPerHour>>
    /\ now_hour = 8
    /\ now_minute = 0
    /\ pc = "done"

\* C7: scenario A, one 2 h leg from 08:00, gives OffDuty 00:00-08:00, Driving
\* 08:00-10:00, OffDuty 10:00-24:00 on one date, and one sheet whose totals
\* are driving = 2 h and off_duty = 22 h (totals are kept in minutes).
C7_ScenarioA ==
    ScenarioA =>
        /\ Len(intervals) = 3 /\ Len(log_entries) = 3
        /\ OneDate
        /\ Shape(1) = <<"off_duty", 0, 8 * SecondsPerHour, "off_duty", <<0, 0>>, <<8, 0>>>>
        /\ Shape(2) = <<"driving", 8 * SecondsPerHour, 10 * SecondsPerHour,
                        "driving", <<8, 0>>, <<10, 0>>>>
        /\ Shape(3) = <<"off_duty", 10 * SecondsPerHour, Midnight,
                        "off_duty", <<10, 0>>, <<0, 0>>>>
        /\ Len(sheets) = 1
        /\ sheets[1].date_start = StrfDate(now_date)
        /\ Len(sheets[1].segments) = 3
        /\ sheets[1].totals = [off_duty |-> 22 * 60, sleeper_berth |-> 0,
                               driving |-> 2 * 60, on_duty_not_driving |-> 0]

\* C7 witness: scenario A has run to its end
C7_Witness == ScenarioA /\ sheets # <<>>

ScenarioB ==
    /\ segments = <<SecondsPerHour, SecondsPerHour>>
    /\ now_hour = 0
    /\ now_minute = 0
    /\ Returned

\* C8: scenario B, two 1 h legs from 00:00, gives exactly Driving 00:00-01:00,
\* OnDutyNotDriving 01:00-02:00, Driving 02:00-03:00, OffDuty 03:00-24:00,
\* with no pre-trip OffDuty interval.
C8_ScenarioB ==
    ScenarioB =>
        /\ Len(intervals) = 4 /\ Len(log_entries) = 4
        /\ OneDate
        /\ Shape(1) = <<"driving", 0, SecondsPerHour, "driving", <<0, 0>>, <<1, 0>>>>
        /\ Shape(2) = <<"on_duty_not_driving", SecondsPerHour, 2 * SecondsPerHour,
                        "on_duty_not_driving", <<1, 0>>, <<2, 0>>>>
        /\ Shape(3) = <<"driving", 2 * SecondsPerHour, 3 * SecondsPerHour,
                        "driving", <<2, 0>>, <<3, 0>>>>
        /\ Shape(4) = <<"off_duty", 3 * SecondsPerHour, Midnight,
                        "off_duty", <<3, 0>>, <<0, 0>>>>

\* C8 witness: scenario B has returned its log
C8_Witness == ScenarioB /\ Len(log_entries) >= 2

ScenarioC ==
    /\ segments = <<12 * SecondsPerHour>>
    /\ now_hour = 0
    /\ now_minute = 0
    /\ Returned

\* C9: scenario C, one 12 h leg from 00:00, is split at the 8 h mark by a 0.5 h
\* break (Driving 00:00-08:00, OffDuty 08:00-08:30), split again where the
\* driving of the day reaches the 11 h ceiling (Driving 08:30-11:30), and rolls
\* over to a rest 00:00-10:00 on the next date; the output spans two dates.
C9_ScenarioC ==
    ScenarioC =>
        /\ Len(intervals) >= 4
        /\ Shape(1) = <<"driving", 0, 8 * SecondsPerHour, "driving", <<0, 0>>, <<8, 0>>>>
        /\ Shape(2) = <<"off_duty", 8 * SecondsPerHour, 8 * SecondsPerHour + break_duration,
                        "off_duty", <<8, 0>>, <<8, 30>>>>
        /\ intervals[3].status = "driving"
        /\ intervals[3].start = 8 * SecondsPerHour + break_duration
        /\ intervals[3].end = 11 * SecondsPerHour + break_duration
        /\ SumLen(intervals, now_date, {"driving"}) = max_drive_hours
        /\ \E n \in 1..Len(intervals) :
              intervals[n].date = AddOneDay(now_date) /\ IsRest(n)
        /\ Cardinality(IntervalDates) = 2

(***************************************************************************)
(* C10: the sheets of an arbitrary list of entries.                        *)
(***************************************************************************)
RECURSIVE FirstSeen(_, _)
\* the distinct dates of seq in the order of their first entry, after those of seen
FirstSeen(seq, seen) ==
    IF seq = <<>> THEN <<>>
    ELSE IF Head(seq).date \in seen THEN FirstSeen(Tail(seq), seen)
    ELSE <<Head(seq).date>> \o FirstSeen(Tail(seq), seen \cup {Head(seq).date})

RECURSIVE SumDuration(_, _)
\* the summed duration, in minutes, of the entries of seq of status s
SumDuration(seq, s) ==
    IF seq = <<>> THEN 0
    ELSE (IF Head(seq).duty_status = s THEN Duration(Head(seq)) ELSE 0)
         + SumDuration(Tail(seq), s)

\* sheet is the sheet of date d: the entries of d, each once, in input order
SheetOf(sheet, d) ==
    LET mine == SelectSeq(log_entries, LAMBDA e : e.date = d)
    IN  /\ sheet.date_start = StrfDate(d)
        /\ Len(sheet.segments) = Len(mine)
        /\ \A n \in 1..Len(mine) :
              /\ sheet.segments[n].id = n - 1
              /\ sheet.segments[n].status = mine[n].duty_status
              /\ sheet.segments[n].note = mine[n].remarks
              /\ sheet.segments[n].start_time = StrfTime(mine[n].start_time)
              /\ sheet.segments[n].end_time = StrfTime(mine[n].end_time)
        /\ \A s \in DOMAIN sheet.totals : sheet.totals[s] = SumDuration(mine, s)

\* C10: generate_daily_log_sheets returns one sheet per distinct date of its
\* input, in first-seen order; each entry is once in the sheet of its date, in
\* input order, with ids 0, 1, 2, ...; each total is the sum of the durations
\* of the date's entries of that status.
C10_SheetsGroupByDate ==
    pc = "done" =>
        LET dates == FirstSeen(log_entries, {})
        IN  /\ Len(sheets) = Len(dates)
            /\ \A n \in 1..Len(sheets) : SheetOf(sheets[n], dates[n])

\* C10 witness: three entries whose dates interleave, grouped into two sheets
C10_Witness ==
    /\ pc = "done"
    /\ Len(log_entries) = 3
    /\ log_entries[1].date = log_entries[3].date
    /\ log_entries[1].date # log_entries[2].date
    /\ log_entries[1].duty_status = log_entries[3].duty_status
    /\ Len(sheets) = 2
    /\ Len(sheets[1].segments) = 2

(***************************************************************************)
(* C11: the totals of a sheet of the simulator's output.                   *)
(***************************************************************************)
\* the four per-status totals of a sheet, summed, in minutes
TotalOf(sheet) ==
    sheet.totals.off_duty + sheet.totals.sleeper_berth
        + sheet.totals.driving + sheet.totals.on_duty_not_driving

\* C11: on the simulator's output the four totals of the sheet of a date that
\* is neither the first nor the last sum to exactly 24 h, and those of the
\* first and of the last date to at most 24 h.
C11_SheetTotalsWithin24h ==
    (ValidInput /\ pc = "done") =>
        \A n \in 1..Len(sheets) :
            IF 1 < n /\ n < Len(sheets)
            THEN TotalOf(sheets[n]) = 24 * 60
            ELSE TotalOf(sheets[n]) <= 24 * 60

(***************************************************************************)
(* C13: the input contract.                                                *)
(***************************************************************************)
\* C13: for an empty segment list or a negative duration generate_log_entries
\* fails fast: it emits and saves no interval.
C13_InvalidInputRejected ==
    ~ValidInput => (log_entries = <<>> /\ intervals = <<>> /\ saved = <<>>)

(***************************************************************************)
(* C15: conservation of the drive time.                                    *)
(***************************************************************************)
RECURSIVE SumSeq(_)
SumSeq(seq) == IF seq = <<>> THEN 0 ELSE Head(seq) + SumSeq(Tail(seq))

RECURSIVE SumDriving(_)
\* summed end - start of the Driving intervals of seq
SumDriving(seq) ==
    IF seq = <<>> THEN 0
    ELSE (IF Head(seq).status = "driving" THEN Head(seq).end - Head(seq).start ELSE 0)
         + SumDriving(Tail(seq))

\* C15: the Driving intervals of the output sum to the sum of the segments'
\* durations, and the remaining drive time of a segment is never negative.
C15_DriveTimeConserved ==
    ValidInput =>
        /\ drive_time_to_add >= 0
        /\ Returned => SumDriving(intervals) = SumSeq(segments)

(***************************************************************************)
(* C16: the duration the aggregator computes from the stored times.        *)
(***************************************************************************)
\* C16: for an interval emitted from s to e, both whole minutes, the duration
\* computed from its stored start_time and end_time is e - s; intervals that
\* end at 24:00 and the interval 00:00-24:00 included.
C16_StoredDurationIsExact ==
    ValidInput =>
        /\ Len(log_entries) = Len(intervals)
        /\ \A n \in 1..Len(intervals) :
              (intervals[n].start % 60 = 0 /\ intervals[n].end % 60 = 0) =>
                  Duration(log_entries[n]) * 60 = intervals[n].end - intervals[n].start

(***************************************************************************)
(* C12: determinism in the caller's inputs.                                *)
(***************************************************************************)
\* C12: two runs of generate_log_entries given the same trip and the same
\* segment list return the identical interval sequence; the output does not
\* depend on a wall-clock read.
C12_SameInputSameOutput ==
    (ValidInput /\ request = 2 /\ Returned) => log_entries = first_log

(***************************************************************************)
(* C14: termination of the driving loop.                                   *)
(***************************************************************************)
\* an iteration of the while loop starts in this state
AtIteration == pc = "drive" /\ drive_time_to_add > 0

\* every iteration either emits a driving chunk and strictly decreases the
\* remaining drive time, or is a rollover that does not increase it and
\* leaves a state whose next iteration, if any, is no rollover
LoopProgress ==
    [][AtIteration =>
          \/ /\ pc' = "break"
             /\ drive_time_to_add' < drive_time_to_add
          \/ /\ pc' = "drive"
             /\ current_date' # current_date
             /\ drive_time_to_add' <= drive_time_to_add
             /\ AtIteration' => ~BoundaryHit']_vars

\* the longest leg of the route, 0 when none is positive
RECURSIVE MaxDuration(_)
MaxDuration(seq) ==
    IF seq = <<>> THEN 0
    ELSE LET m == MaxDuration(Tail(seq))
         IN  IF Head(seq) > m THEN Head(seq) ELSE m

\* a natural number that bounds the steps generate_log_entries has left:
\* the segments to come weigh more than any loop, the remaining drive time
\* more than a rollover that drives nothing (the clock is at or past 24:00
\* before it and at 10:00 after it), that more than the break check
Variant ==
    LET cost == 4 * MaxDuration(segments) + 5
        rem == IF drive_time_to_add > 0 THEN drive_time_to_add ELSE 0
    IN  CASE pc = "start" -> Len(segments) * cost + 2
          [] pc = "segment" -> (Len(segments) - i + 1) * cost + 1
          [] pc = "drive" -> (Len(segments) - i) * cost + 2 + 4 * rem
                                + (IF current_time_decimal >= Midnight THEN 2 ELSE 0)
          [] pc = "break" -> (Len(segments) - i) * cost + 2 + 4 * rem + 3
          [] OTHER -> 0

Simulating == pc \in {"start", "segment", "drive", "break"}

\* C14: generate_log_entries terminates: every iteration of the while loop
\* strictly decreases the remaining drive time or is a rollover immediately
\* followed by an iteration that does, and every step of the simulation
\* strictly decreases a natural number.
C14_Terminates ==
    /\ LoopProgress
    /\ [][Simulating => (Variant' < Variant /\ Variant' >= 0)]_vars

\* the run reaches its end (checked under FairSpec)
EventuallyDone == <>(pc = "done")

\* C14 witness: a run of valid input that rolled over with the clock at or past
\* 24:00, so without driving, and has returned
C14_Witness ==
    /\ ValidInput
    /\ pc = "done"
    /\ \E n \in 2..Len(intervals) :
          /\ intervals[n].date # intervals[n - 1].date
          /\ intervals[n - 1].status # "driving"

(***************************************************************************)
(* C17: what a day rollover does.                                          *)
(***************************************************************************)
\* C17: every boundary hit rolls the date over, and a rollover, whichever
\* condition triggered it, resets the three accumulators to 0, advances the
\* date by exactly one day, leaves the clock at 10:00 after the rest, and
\* changes the remaining drive time only by the hours driven up to 24:00.
C17_RolloverResets ==
    [][/\ (AtIteration /\ BoundaryHit) => current_date' # current_date
       /\ current_date' # current_date =>
             /\ pc = "drive" /\ pc' = "drive"
             /\ daily_drive_hours' = 0
             /\ daily_duty_hours' = 0
             /\ hours_since_break' = 0
             /\ DayNumber(current_date') = DayNumber(current_date) + 1
             /\ current_time_decimal' = off_duty_required
             /\ drive_time_to_add' = drive_time_to_add
                    - (IF current_time_decimal < Midnight
                       THEN Midnight - current_time_decimal ELSE 0)
             /\ intervals'[Len(intervals')] =
                    Interval("off_duty", current_date', 0, off_duty_required)]_vars

\* C17 witness: the state after a rollover that the 11 h drive ceiling alone
\* triggered, at 08:30 with 8 h driven, 8.5 h on duty and 4 h left to drive
C17_Witness ==
    /\ segments = <<12 * SecondsPerHour>>
    /\ pc = "drive"
    /\ current_date = AddOneDay(now_date)
    /\ current_time_decimal = off_duty_required
    /\ hours_since_break = 0 /\ daily_drive_hours = 0 /\ daily_duty_hours = 0
    /\ Len(intervals) = 4
    /\ intervals[3] = Interval("driving", now_date, 8 * SecondsPerHour + break_duration, Midnight)

(***************************************************************************)
(* C18: the loading/unloading stops.                                       *)
(***************************************************************************)
RECURSIVE CountStatus(_, _)
\* the number of intervals of seq of status s
CountStatus(seq, s) ==
    IF seq = <<>> THEN 0
    ELSE (IF Head(seq).status = s THEN 1 ELSE 0) + CountStatus(Tail(seq), s)

Loadings == CountStatus(intervals, "on_duty_not_driving")

\* the number of segments the for loop has begun
SegmentsBegun ==
    CASE pc \in {"drive", "break"} -> i
      [] pc = "segment" -> i - 1
      [] pc = "start" -> 0
      [] OTHER -> Len(segments)

\* C18: one OnDutyNotDriving interval of exactly 1 h is emitted at the clock
\* position before every segment but the first and nowhere else, so n segments
\* give n - 1 of them; it advances the clock and dailyDutyHours by 1 h and
\* leaves dailyDriveHours, hoursSinceBreak and the date unchanged.
C18_OneLoadingBetweenSegments ==
    /\ [](Loadings = (IF SegmentsBegun >= 1 THEN SegmentsBegun - 1 ELSE 0))
    /\ [][Loadings' # Loadings =>
             /\ pc = "segment" /\ pc' = "drive" /\ i > 1 /\ i' = i
             /\ Loadings' = Loadings + 1
             /\ intervals' = Append(intervals,
                    Interval("on_duty_not_driving", current_date, current_time_decimal,
                             current_time_decimal + SecondsPerHour))
             /\ current_time_decimal' = current_time_decimal + SecondsPerHour
             /\ daily_duty_hours' = daily_duty_hours + SecondsPerHour
             /\ UNCHANGED <<daily_drive_hours, hours_since_break, current_date>>]_vars

\* C18 witness: a returned trip of three legs with its two loading stops
C18_Witness ==
    /\ ValidInput
    /\ Returned
    /\ Len(segments) = 3
    /\ \A j \in 1..3 : segments[j] > 0
    /\ Loadings = 2

(***************************************************************************)
(* C19: the 8 h break.                                                     *)
(***************************************************************************)
\* C19: at the start of every iteration of the driving loop
\* 0 <= hoursSinceBreak < 8 h and the chunk is positive; after a chunk
\* hoursSinceBreak is at most 8 h, and exactly when it is 8 h the 0.5 h
\* OffDuty break follows at once, advancing the clock and dailyDutyHours by
\* 0.5 h, resetting hoursSinceBreak and leaving dailyDriveHours unchanged.
C19_BreakAtEightHours ==
    /\ [](/\ pc = "drive" =>
                (0 <= hours_since_break /\ hours_since_break < 8 * SecondsPerHour)
          /\ AtIteration => DriveSegmentDuration > 0
          /\ pc = "break" =>
                (0 < hours_since_break /\ hours_since_break <= 8 * SecondsPerHour))
    /\ [][pc = "break" =>
             IF hours_since_break = 8 * SecondsPerHour
             THEN /\ intervals' = Append(intervals,
                         Interval("off_duty", current_date, current_time_decimal,
                                  current_time_decimal + SecondsPerHour \div 2))
                  /\ log_entries'[Len(log_entries')].remarks = "Required 30-minute break"
                  /\ current_time_decimal' = current_time_decimal + SecondsPerHour \div 2
                  /\ daily_duty_hours' = daily_duty_hours + SecondsPerHour \div 2
                  /\ hours_since_break' = 0
                  /\ UNCHANGED <<daily_drive_hours, current_date, drive_time_to_add>>
             ELSE UNCHANGED <<intervals, log_entries, current_time_decimal,
                              daily_duty_hours, hours_since_break, daily_drive_hours,
                              current_date, drive_time_to_add>>]_vars

\* C19 witness: the break has just been taken after 8 h of driving
C19_Witness ==
    /\ ValidInput
    /\ pc = "drive"
    /\ hours_since_break = 0
    /\ daily_drive_hours = 8 * SecondsPerHour
    /\ log_entries # <<>>
    /\ log_entries[Len(log_entries)].remarks = "Required 30-minute break"

(***************************************************************************)
(* C20: the closing interval.                                              *)
(***************************************************************************)
\* the positions of the closing interval in the log
Closings ==
    { n \in 1..Len(log_entries) : log_entries[n].remarks = "Trip completed, off duty" }

\* C20: once all segments are processed a closing OffDuty interval from the
\* clock position to 24:00 is emitted if and only if the clock is below
\* 24:00; it is the last interval of the output and lies on the last date,
\* and no interval is emitted after it.
C20_ClosingOffDuty ==
    /\ [](/\ ~Returned => Closings = {}
          /\ Returned =>
                /\ Len(log_entries) = Len(intervals)
                /\ (current_time_decimal < Midnight) <=> (Closings # {})
                /\ Closings \subseteq {Len(log_entries)}
                /\ Closings # {} =>
                      /\ intervals[Len(intervals)] =
                            Interval("off_duty", current_date, current_time_decimal, Midnight)
                      /\ log_entries[Len(log_entries)].end_time = <<0, 0>>
                      /\ \A n \in 1..Len(intervals) :
                            DayNumber(intervals[n].date) <= DayNumber(current_date))
    /\ [][Returned => UNCHANGED <<log_entries, intervals, saved>>]_vars

\* C20 witness: a returned log of valid input that ends with the closing interval
C20_Witness ==
    /\ ValidInput
    /\ Returned
    /\ Closings = {Len(log_entries)}
    /\ Len(log_entries) >= 3
    /\ current_time_decimal > 0

=============================================================================
